---------------------------- MODULE Spec2Model ----------------------------
(***************************************************************************)
(* Model of neurodocker/interfaces/spm.py (class SPM) and of check_url of  *)
(* utils.py.                                                               *)
(*                                                                         *)
(* A text (a Python str) is a sequence of fragments (TLA+ strings).  The   *)
(* fragment "\n" is the newline, the fragment "&&" the shell's logical     *)
(* AND, a fragment in braces a str.format replacement field.  Values that  *)
(* the program inspects character by character (the MATLAB version, the    *)
(* SPM version) are sequences of one-character fragments.                  *)
(***************************************************************************)
EXTENDS Integers, Sequences, FiniteSets, TLC

(***************************************************************************)
(* Bounds of the model.                                                    *)
(***************************************************************************)
\* MATLAB releases R<year>a, R<year>b are drawn from MinYear..MaxYear
MaxYear == 2014

\* the year of the threshold release "R2013a"
ThresholdYear == 2013

MinYear == ThresholdYear - 1

(***************************************************************************)
(* Text helpers.                                                           *)
(***************************************************************************)
NL == "\n"

AND == "&&"

RECURSIVE join(_, _)
\* str.join: sep.join(texts)
join(sep, texts) ==
    IF texts = <<>> THEN <<>>
    ELSE IF Len(texts) = 1 THEN Head(texts)
    ELSE Head(texts) \o sep \o join(sep, Tail(texts))

RECURSIVE format(_, _)
\* str.format: every replacement field of tpl that args names is replaced by
\* its argument; the arguments themselves are not scanned again
format(tpl, args) ==
    IF tpl = <<>> THEN <<>>
    ELSE (IF Head(tpl) \in DOMAIN args THEN args[Head(tpl)] ELSE <<Head(tpl)>>)
         \o format(Tail(tpl), args)

\* the number of occurrences of fragment t in text
Count(text, t) == Cardinality({i \in 1..Len(text) : text[i] = t})

\* text s occurs in text t as a contiguous run of fragments
Occurs(s, t) ==
    \E i \in 1..(Len(t) - Len(s) + 1) : SubSeq(t, i, i + Len(s) - 1) = s

RECURSIVE Digits(_)
\* the decimal digits of a natural number, as one-character fragments
Digits(n) ==
    LET d == <<"0", "1", "2", "3", "4", "5", "6", "7", "8", "9">>
    IN  IF n < 10 THEN <<d[n + 1]>> ELSE Digits(n \div 10) \o <<d[(n % 10) + 1]>>

\* str(version): a str is itself, an int its decimal digits
str(v) == IF v.isInt THEN Digits(v.int) ELSE v.str

(***************************************************************************)
(* distutils.version.LooseVersion, as used for matlab_version.             *)
(***************************************************************************)
DigitChars == {"0", "1", "2", "3", "4", "5", "6", "7", "8", "9"}

LowerChars == {"a", "b", "r"}

\* the characters of the model, in code-point order
Alphabet == <<".", "0", "1", "2", "3", "4", "5", "6", "7", "8", "9",
              "R", "a", "b", "r">>

ord(c) == CHOOSE i \in 1..Len(Alphabet) : Alphabet[i] = c

\* the class of a character under component_re = (\d+ | [a-z]+ | \.)
CharClass(c) ==
    IF c \in DigitChars THEN "digit"
    ELSE IF c \in LowerChars THEN "lower"
    ELSE IF c = "." THEN "dot"
    ELSE "other"

RECURSIVE Runs(_)
\* component_re.split: the maximal runs of characters of one class; every
\* "." is a run of its own
Runs(chars) ==
    IF chars = <<>> THEN <<>>
    ELSE LET rest == Runs(Tail(chars))
             c    == Head(chars)
         IN  IF /\ rest # <<>>
                /\ CharClass(c) # "dot"
                /\ CharClass(Head(Head(rest))) = CharClass(c)
             THEN <<(<<c>> \o Head(rest))>> \o Tail(rest)
             ELSE <<(<<c>>)>> \o rest

RECURSIVE IntOf(_)
\* int(x) of a run of digits
IntOf(ds) ==
    IF ds = <<>> THEN 0
    ELSE IntOf(SubSeq(ds, 1, Len(ds) - 1)) * 10 + (ord(ds[Len(ds)]) - ord("0"))

\* one component of a LooseVersion: an int or a str
Component(run) ==
    IF CharClass(Head(run)) = "digit"
    THEN [isInt |-> TRUE, int |-> IntOf(run), str |-> <<>>]
    ELSE [isInt |-> FALSE, int |-> 0, str |-> run]

\* LooseVersion.parse: the components of vstring, the "." dropped
LooseVersion(vstring) ==
    LET runs == SelectSeq(Runs(vstring), LAMBDA r : r # <<".">>)
    IN  [vstring |-> vstring,
         version |-> [i \in 1..Len(runs) |-> Component(runs[i])]]

RECURSIVE StrCmp(_, _)
\* the comparison of two str, by code point: "lt", "eq" or "gt"
StrCmp(a, b) ==
    IF a = <<>> /\ b = <<>> THEN "eq"
    ELSE IF a = <<>> THEN "lt"
    ELSE IF b = <<>> THEN "gt"
    ELSE IF ord(Head(a)) < ord(Head(b)) THEN "lt"
    ELSE IF ord(Head(a)) > ord(Head(b)) THEN "gt"
    ELSE StrCmp(Tail(a), Tail(b))

\* the comparison of two components.  An int against a str: Python 2 orders
\* every int before every str, Python 3 raises TypeError
ComponentCmp(a, b, py) ==
    IF a.isInt /\ b.isInt
    THEN (IF a.int < b.int THEN "lt" ELSE IF a.int > b.int THEN "gt" ELSE "eq")
    ELSE IF ~a.isInt /\ ~b.isInt THEN StrCmp(a.str, b.str)
    ELSE IF py = 3 THEN "TypeError"
    ELSE IF a.isInt THEN "lt" ELSE "gt"

RECURSIVE ListCmp(_, _, _)
\* the comparison of two lists of components: the first pair of unequal
\* components decides
ListCmp(a, b, py) ==
    IF a = <<>> /\ b = <<>> THEN "eq"
    ELSE IF a = <<>> THEN "lt"
    ELSE IF b = <<>> THEN "gt"
    ELSE IF Head(a) = Head(b) THEN ListCmp(Tail(a), Tail(b), py)
    ELSE ComponentCmp(Head(a), Head(b), py)

\* the threshold release of _get_mcr_url
R2013a == <<"R">> \o Digits(ThresholdYear) \o <<"a">>


(***************************************************************************)
(* Collaborators of neurodocker.utils.                                     *)
(***************************************************************************)
\* the package managers that manage_pkgs knows
PkgManagers == {"apt", "yum"}

\* manage_pkgs: the install, remove and clean command templates of each
\* package manager
manage_pkgs ==
    [apt |->
        [install |-> <<"apt-get update -qq ", AND,
                       " apt-get install -yq --no-install-recommends ",
                       "{pkgs}">>,
         remove  |-> <<"apt-get purge -y --auto-remove ", "{pkgs}">>,
         clean   |-> <<"apt-get clean ", AND,
                       " rm -rf /var/lib/apt/lists/* /tmp/* /var/tmp/*">>],
     yum |->
        [install |-> <<"yum install -y -q ", "{pkgs}">>,
         remove  |-> <<"yum remove -y ", "{pkgs}">>,
         clean   |-> <<"yum clean packages ", AND,
                       " rm -rf /var/cache/yum/* /tmp/* /var/tmp/*">>]]

RECURSIVE splitlines(_)
\* str.splitlines: the lines of a text, a final newline ending the last line
splitlines(text) ==
    IF text = <<>> THEN <<>>
    ELSE IF \A i \in 1..Len(text) : text[i] # NL THEN <<text>>
    ELSE LET k == CHOOSE i \in 1..Len(text) :
                      /\ text[i] = NL
                      /\ \A j \in 1..(i - 1) : text[j] # NL
         IN  <<SubSeq(text, 1, k - 1)>> \o splitlines(SubSeq(text, k + 1, Len(text)))

\* the line-continuation suffix of indent
line_suffix == " \\"

\* the indentation under a three-letter instruction (RUN, ENV)
indentation == "    "

\* indent: the command under a Dockerfile instruction, every line but the
\* last continued, every line but the first indented
indent(instruction, cmd) ==
    LET split_cmd == splitlines(cmd)
        n         == Len(split_cmd)
        line(i)   ==
            (IF i = 1 THEN <<instruction, " ">> ELSE <<indentation>>)
            \o split_cmd[i]
            \o (IF i < n THEN <<line_suffix>> ELSE <<>>)
    IN  join(<<NL>>, [i \in 1..n |-> line(i)])

\* what urlopen(url) can do
UrlopenOutcomes == {"ok", "HTTPError", "URLError", "timeout"}

\* check_url: True when urlopen succeeds; an HTTPError or a URLError is
\* logged as a warning and False is returned; any other exception of urlopen
\* is not caught
check_url(url, outcome) ==
    IF outcome = "ok"
    THEN [raised |-> "none", ret |-> TRUE, warning |-> <<>>]
    ELSE IF outcome \in {"HTTPError", "URLError"}
    THEN [raised |-> "none", ret |-> FALSE,
          warning |-> <<[url |-> url, e |-> outcome]>>]
    ELSE [raised |-> outcome, ret |-> FALSE, warning |-> <<>>]

(***************************************************************************)
(* The pure parts of class SPM.                                            *)
(***************************************************************************)
\* the versions __init__ accepts
SupportedVersions == {<<"1", "2">>}

\* the comment of _create_cmd
create_cmd_comment(version) ==
    format(<<"#----------------------", NL,
             "# Install MCR and SPM", "{}", NL,
             "#----------------------">>,
           ("{}" :> version))

\* libs of install_libs: the packages of each package manager
libs ==
    [apt |-> <<"libxext6 libxt6">>,
     yum |-> <<"libXext.x86_64 libXt.x86_64">>]

\* install_libs: the section that installs the libraries; a package manager
\* that manage_pkgs does not know is a KeyError
install_libs(pkg_manager) ==
    IF pkg_manager \notin DOMAIN manage_pkgs
    THEN [raised |-> "KeyError", text |-> <<>>]
    ELSE LET comment == <<"# Install required libraries">>
             m       == manage_pkgs[pkg_manager]
             cmd1    == format(<<"{install}", NL, AND, " ", "{clean}">>,
                               ("{install}" :> m.install) @@
                               ("{clean}" :> m.clean) @@
                               ("{remove}" :> m.remove))
             cmd2    == format(cmd1, ("{pkgs}" :> libs[pkg_manager]))
         IN  [raised |-> "none",
              text   |-> join(<<NL>>, <<comment, indent("RUN", cmd2)>>)]

\* base of _get_mcr_url
base == <<"https://www.mathworks.com", "/", "supportfiles", "/">>

\* urljoin(base, rel) for a relative path rel: rel replaces what follows the
\* last "/" of base
urljoin(b, rel) ==
    LET k == CHOOSE i \in 1..Len(b) :
                 /\ b[i] = "/"
                 /\ \A j \in (i + 1)..Len(b) : b[j] # "/"
    IN  SubSeq(b, 1, k) \o rel

\* rel of _get_mcr_url, for releases after R2013a
rel_deployment_files ==
    <<"downloads/", "{ver}", "/deployment_files/", "{ver}",
      "/installers/glnxa64/MCR_", "{ver}", "_glnxa64_installer.zip">>

\* rel of _get_mcr_url, for R2013a and the releases before it
rel_MCR_Runtime ==
    <<"MCR_Runtime/", "{ver}", "/MCR_", "{ver}", "_glnxa64_installer.zip">>

\* version_gt with >= for >: the threshold release itself counts as after
version_ge(matlab_version, py) ==
    LET c == ListCmp(matlab_version.version, LooseVersion(R2013a).version, py)
    IN  IF c = "TypeError" THEN [raised |-> "TypeError", gt |-> FALSE]
        ELSE [raised |-> "none", gt |-> (c \in {"gt", "eq"})]

\* matlab_version > LooseVersion("R2013a"): TRUE, FALSE or "TypeError"
version_gt(matlab_version, py) ==
    LET c == ListCmp(matlab_version.version, LooseVersion(R2013a).version, py)
    IN  IF c = "TypeError" THEN [raised |-> "TypeError", gt |-> FALSE]
        ELSE [raised |-> "none", gt |-> (c = "gt")]

\* the URL of _get_mcr_url, given the result of the comparison
mcr_url_of(matlab_version, gt) ==
    LET rel == IF gt THEN rel_deployment_files ELSE rel_MCR_Runtime
    IN  format(urljoin(base, rel), ("{ver}" :> matlab_version.vstring))

\* the URL of _get_spm_url
spm_url_of(version, matlab_version) ==
    format(<<"http://www.fil.ion.ucl.ac.uk/spm/download/restricted/",
             "utopia/dev/spm", "{spm}", "_latest_Linux_", "{matlab}", ".zip">>,
           ("{spm}" :> version) @@ ("{matlab}" :> matlab_version.vstring))

\* install_mcr_cmd without the removal of the temporary files
install_mcr_cmd_NoCleanup(url) ==
    format(<<"curl -sSL -o mcr.zip ", "{}",
             NL, AND, " unzip -q mcr.zip -d mcrtmp",
             NL, AND, " mcrtmp/install", " -destinationFolder /opt/mcr",
                      " -mode silent", " -agreeToLicense yes">>,
           ("{}" :> url))

\* the shell command of install_mcr, before indent
install_mcr_cmd(url) ==
    format(<<"curl -sSL -o mcr.zip ", "{}",
             NL, AND, " unzip -q mcr.zip -d mcrtmp",
             NL, AND, " mcrtmp/install", " -destinationFolder /opt/mcr",
                      " -mode silent", " -agreeToLicense yes",
             NL, AND, " rm -rf mcrtmp mcr.zip /tmp/*">>,
           ("{}" :> url))

\* install_mcr: the section that installs the MATLAB Compiler Runtime
install_mcr(url) ==
    LET comment     == <<"# Install MATLAB Compiler Runtime">>
        workdir_cmd == <<"WORKDIR /opt">>
    IN  join(<<NL>>, <<comment, workdir_cmd, indent("RUN", install_mcr_cmd(url))>>)

\* the shell command of install_spm, before indent
install_spm_cmd(url) ==
    format(<<"curl -sSL -o spm.zip ", "{}",
             NL, AND, " unzip -q spm.zip",
             NL, AND, " rm -rf spm.zip", NL>>,
           ("{}" :> url))

\* env_cmd with every variable given a wildcarded path, FORCE_SPMMCR too
env_cmd_ForcePath ==
    <<"MATLABCMD", "=", "/opt/mcr/v*", "/toolbox/matlab",
      NL, "SPMMCRCMD", "=", "\"", "/opt/spm*", "/run_spm*.sh ", "/opt/mcr/v*",
          "/ script", "\"",
      NL, "FORCE_SPMMCR", "=", "/opt/spm*",
      NL, "LD_LIBRARY_PATH", "=", "/opt/mcr/v*", "/runtime/glnxa64:",
          "/opt/mcr/v*", "/bin/glnxa64:", "/opt/mcr/v*",
          "/sys/os/glnxa64:$LD_LIBRARY_PATH">>

\* env_cmd of install_spm, before indent
env_cmd ==
    <<"MATLABCMD", "=", "/opt/mcr/v*", "/toolbox/matlab",
      NL, "SPMMCRCMD", "=", "\"", "/opt/spm*", "/run_spm*.sh ", "/opt/mcr/v*",
          "/ script", "\"",
      NL, "FORCE_SPMMCR", "=", "1",
      NL, "LD_LIBRARY_PATH", "=", "/opt/mcr/v*", "/runtime/glnxa64:",
          "/opt/mcr/v*", "/bin/glnxa64:", "/opt/mcr/v*",
          "/sys/os/glnxa64:$LD_LIBRARY_PATH">>

\* install_spm: the section that installs the standalone SPM
install_spm(url) ==
    LET comment     == <<"# Install standalone SPM">>
        workdir_cmd == <<"WORKDIR /opt">>
    IN  join(<<NL>>, <<comment, workdir_cmd, indent("RUN", install_spm_cmd(url)),
                       indent("ENV", env_cmd)>>)

(***************************************************************************)
(* The state: one SPM object under construction, what the construction did *)
(* to the outside, and the object that was constructed before it.          *)
(***************************************************************************)
VARIABLES
    pc,              \* where the construction of the SPM object stands
    version,         \* self.version
    matlab_version,  \* self.matlab_version, a LooseVersion
    pkg_manager,     \* self.pkg_manager
    check_urls,      \* self.check_urls
    comment,         \* comment of _create_cmd
    mcr_url,         \* mcr_url of _create_cmd
    spm_url,         \* spm_url of _create_cmd
    chunks,          \* chunks of _create_cmd, as far as they are evaluated
    cmd,             \* self.cmd
    error,           \* the exception that left __init__, "none" without one
    calls,           \* the URLs given to urlopen by this construction
    returns,         \* what check_url returned to this construction
    log,             \* the warnings that this construction logged
    prev             \* the SPM object constructed before this one

vars == <<pc, version, matlab_version, pkg_manager, check_urls, comment,
          mcr_url, spm_url, chunks, cmd, error, calls, returns, log, prev>>

\* the arguments of SPM(version, matlab_version, pkg_manager, check_urls)
VersionArgs ==
    {[isInt |-> TRUE,  int |-> 12, str |-> <<>>],
     [isInt |-> FALSE, int |-> 0,  str |-> <<"1", "2">>],
     [isInt |-> FALSE, int |-> 0,  str |-> <<"8">>]}

\* the MATLAB releases R<year>a and R<year>b of the years of the model
Releases ==
    {<<"R">> \o Digits(y) \o <<h>> : y \in MinYear..MaxYear, h \in {"a", "b"}}

MatlabVersionArgs == Releases

PkgManagerArgs == PkgManagers \cup {"zypper"}

NoObject == [built |-> FALSE]

Init ==
    /\ pc = "idle"
    /\ version = <<>>
    /\ matlab_version = LooseVersion(<<>>)
    /\ pkg_manager = ""
    /\ check_urls = FALSE
    /\ comment = <<>>
    /\ mcr_url = <<>>
    /\ spm_url = <<>>
    /\ chunks = <<>>
    /\ cmd = <<>>
    /\ error = "none"
    /\ calls = <<>>
    /\ returns = <<>>
    /\ log = <<>>
    /\ prev = NoObject

\* the object that a finished construction leaves behind
Built ==
    [built |-> TRUE, version |-> version,
     matlab_version |-> matlab_version.vstring, pkg_manager |-> pkg_manager,
     check_urls |-> check_urls, cmd |-> cmd]

\* __init__ up to the call of _create_cmd: the attributes are set, and a
\* version other than "12" is a ValueError
__init__(v, mv, pm, cu) ==
    /\ pc \in {"idle", "done", "raised"}
    /\ prev' = IF pc = "done" THEN Built ELSE prev
    /\ version' = str(v)
    /\ matlab_version' = LooseVersion(mv)
    /\ pkg_manager' = pm
    /\ check_urls' = cu
    /\ comment' = <<>>
    /\ mcr_url' = <<>>
    /\ spm_url' = <<>>
    /\ chunks' = <<>>
    /\ cmd' = <<>>
    /\ calls' = <<>>
    /\ returns' = <<>>
    /\ log' = <<>>
    /\ IF str(v) \notin SupportedVersions
       THEN pc' = "raised" /\ error' = "ValueError"
       ELSE pc' = "_create_cmd" /\ error' = "none"

\* _create_cmd, its comment
_create_cmd ==
    /\ pc = "_create_cmd"
    /\ comment' = create_cmd_comment(version)
    /\ pc' = "_get_mcr_url"
    /\ UNCHANGED <<version, matlab_version, pkg_manager, check_urls,
                   mcr_url, spm_url, chunks, cmd, error, calls, returns, log,
                   prev>>

\* CheckThen that checks no further URL once a check has failed
CheckThen_SkipAfterFailure(url, outcome, next) ==
    IF check_urls /\ log = <<>>
    THEN LET r == check_url(url, outcome)
         IN  /\ calls' = Append(calls, url)
             /\ log' = log \o r.warning
             /\ IF r.raised = "none"
                THEN /\ returns' = Append(returns, r.ret)
                     /\ pc' = next
                     /\ error' = "none"
                ELSE /\ returns' = returns
                     /\ pc' = "raised"
                     /\ error' = r.raised
    ELSE /\ pc' = next
         /\ UNCHANGED <<calls, returns, log, error>>

\* the effect of `if self.check_urls: check_url(url)` on the outside and on
\* the control flow, then to the step next
CheckThen(url, outcome, next) ==
    IF check_urls
    THEN LET r == check_url(url, outcome)
         IN  /\ calls' = Append(calls, url)
             /\ log' = log \o r.warning
             /\ IF r.raised = "none"
                THEN /\ returns' = Append(returns, r.ret)
                     /\ pc' = next
                     /\ error' = "none"
                ELSE /\ returns' = returns
                     /\ pc' = "raised"
                     /\ error' = r.raised
    ELSE /\ pc' = next
         /\ UNCHANGED <<calls, returns, log, error>>

\* the major versions of the Python interpreters that run the module
PythonVersions == {2, 3}

\* _get_mcr_url, under a Python interpreter of major version py
_get_mcr_url(py, outcome) ==
    /\ pc = "_get_mcr_url"
    /\ LET c == version_gt(matlab_version, py)
       IN  IF c.raised # "none"
           THEN /\ pc' = "raised"
                /\ error' = c.raised
                /\ UNCHANGED <<mcr_url, calls, returns, log>>
           ELSE LET url == mcr_url_of(matlab_version, c.gt)
                IN  /\ mcr_url' = url
                    /\ CheckThen(url, outcome, "_get_spm_url")
    /\ UNCHANGED <<version, matlab_version, pkg_manager, check_urls,
                   comment, spm_url, chunks, cmd, prev>>

\* _get_spm_url
_get_spm_url(outcome) ==
    /\ pc = "_get_spm_url"
    /\ LET url == spm_url_of(version, matlab_version)
       IN  /\ spm_url' = url
           /\ CheckThen(url, outcome, "install_libs")
    /\ UNCHANGED <<version, matlab_version, pkg_manager, check_urls,
                   comment, mcr_url, chunks, cmd, prev>>

\* chunks of _create_cmd: comment and self.install_libs()
chunks_libs ==
    /\ pc = "install_libs"
    /\ LET r == install_libs(pkg_manager)
       IN  IF r.raised # "none"
           THEN /\ pc' = "raised"
                /\ error' = r.raised
                /\ UNCHANGED chunks
           ELSE /\ chunks' = <<comment, r.text>>
                /\ pc' = "install_mcr"
                /\ UNCHANGED error
    /\ UNCHANGED <<version, matlab_version, pkg_manager, check_urls,
                   comment, mcr_url, spm_url, cmd, calls, returns, log, prev>>

\* chunks_mcr that leaves the download out of the section when the check of
\* the runtime URL failed
chunks_mcr_Unreachable ==
    /\ pc = "install_mcr"
    /\ chunks' = chunks \o <<(<<>>),
                            install_mcr(IF returns # <<>> /\ ~returns[1]
                                        THEN <<>> ELSE mcr_url)>>
    /\ pc' = "install_spm"
    /\ UNCHANGED <<version, matlab_version, pkg_manager, check_urls,
                   comment, mcr_url, spm_url, cmd, error, calls, returns, log,
                   prev>>

\* chunks of _create_cmd: '' and self.install_mcr(mcr_url)
chunks_mcr ==
    /\ pc = "install_mcr"
    /\ chunks' = chunks \o <<(<<>>), install_mcr(mcr_url)>>
    /\ pc' = "install_spm"
    /\ UNCHANGED <<version, matlab_version, pkg_manager, check_urls,
                   comment, mcr_url, spm_url, cmd, error, calls, returns, log,
                   prev>>

\* chunks of _create_cmd: '' and self.install_spm(spm_url)
chunks_spm ==
    /\ pc = "install_spm"
    /\ chunks' = chunks \o <<(<<>>), install_spm(spm_url)>>
    /\ pc' = "join"
    /\ UNCHANGED <<version, matlab_version, pkg_manager, check_urls,
                   comment, mcr_url, spm_url, cmd, error, calls, returns, log,
                   prev>>

\* return_cmd that joins the application section before the runtime section
return_cmd_Reordered ==
    /\ pc = "join"
    /\ cmd' = join(<<NL>>, <<chunks[1], chunks[2], chunks[3], chunks[6],
                            chunks[5], chunks[4]>>)
    /\ pc' = "done"
    /\ UNCHANGED <<version, matlab_version, pkg_manager, check_urls,
                   comment, mcr_url, spm_url, chunks, error, calls, returns,
                   log, prev>>

\* return "\n".join(chunks), and self.cmd = of __init__
return_cmd ==
    /\ pc = "join"
    /\ cmd' = join(<<NL>>, chunks)
    /\ pc' = "done"
    /\ UNCHANGED <<version, matlab_version, pkg_manager, check_urls,
                   comment, mcr_url, spm_url, chunks, error, calls, returns,
                   log, prev>>

Next ==
    \/ \E v \in VersionArgs, mv \in MatlabVersionArgs, pm \in PkgManagerArgs,
          cu \in BOOLEAN : __init__(v, mv, pm, cu)
    \/ _create_cmd
    \/ \E py \in PythonVersions, outcome \in UrlopenOutcomes :
          _get_mcr_url(py, outcome)
    \/ \E outcome \in UrlopenOutcomes : _get_spm_url(outcome)
    \/ chunks_libs
    \/ chunks_mcr
    \/ chunks_spm
    \/ return_cmd

Spec == Init /\ [][Next]_vars

(***************************************************************************)
(* Vocabulary of the properties.                                           *)
(***************************************************************************)
\* the exceptions that report a wrong configuration: the ValueError of
\* __init__ and the KeyError of the lookup in manage_pkgs
ConfigurationErrors == {"ValueError", "KeyError"}

\* the construction has ended, with an object or with an exception
Ended == pc \in {"done", "raised"}

\* the commands of a chain that "&&" guards
Steps(text) == Count(text, AND) + 1

\* the sections, once _create_cmd has evaluated them
LibsSection == chunks[2]

McrSection == chunks[4]

SpmSection == chunks[6]

\* the runtime-download URL of a release, in the layout of the releases
\* after the threshold
DeploymentFilesUrl(v) ==
    <<"https://www.mathworks.com", "/", "supportfiles", "/", "downloads/">>
    \o v \o <<"/deployment_files/">> \o v \o <<"/installers/glnxa64/MCR_">>
    \o v \o <<"_glnxa64_installer.zip">>

\* the runtime-download URL of a release, in the legacy layout
McrRuntimeUrl(v) ==
    <<"https://www.mathworks.com", "/", "supportfiles", "/", "MCR_Runtime/">>
    \o v \o <<"/MCR_">> \o v \o <<"_glnxa64_installer.zip">>

\* release R<y><h> is after the threshold release R2013a
AfterThreshold(y, h) == y > ThresholdYear \/ (y = ThresholdYear /\ h = "b")

(***************************************************************************)
(* C1                                                                      *)
(***************************************************************************)
\* C1: a construction with a supported version and a known package manager
\* ends with an object and its composed instructions, whatever the MATLAB
\* version and check_urls; a construction with any other version ends with
\* the configuration error and composes nothing.
C1_SupportedVersionBuilds ==
    Ended =>
        /\ (version \in SupportedVersions /\ pkg_manager \in PkgManagers)
               => (pc = "done" /\ error = "none" /\ cmd # <<>>)
        /\ (version \notin SupportedVersions)
               => (pc = "raised" /\ error \in ConfigurationErrors
                   /\ cmd = <<>> /\ chunks = <<>>)

(***************************************************************************)
(* C2                                                                      *)
(***************************************************************************)
\* C2: a construction that ends with a configuration error has called
\* urlopen for no URL and has composed no section, also with check_urls.
C2_FailFast ==
    (pc = "raised" /\ error \in ConfigurationErrors)
        => (calls = <<>> /\ chunks = <<>>)

(***************************************************************************)
(* C3                                                                      *)
(***************************************************************************)
\* C3: every call of check_url returns a boolean, whatever urlopen does, and
\* no exception of urlopen ends the construction.
C3_CheckNeverRaises ==
    /\ Len(returns) = Len(calls)
    /\ \A i \in 1..Len(returns) : returns[i] \in BOOLEAN
    /\ error \notin UrlopenOutcomes

(***************************************************************************)
(* C4                                                                      *)
(***************************************************************************)
\* C4: without check_urls urlopen is never called; a construction with
\* check_urls that ends with an object has called it exactly twice, for the
\* runtime URL and then for the application URL, whatever the first call
\* returned.
C4_CallCount ==
    /\ ~check_urls => calls = <<>>
    /\ (pc = "done" /\ check_urls) =>
           (calls = <<mcr_url, spm_url>> /\ Len(returns) = 2
            /\ mcr_url # spm_url)

\* an object is built although the first of the two checks failed
C4_Witness ==
    /\ pc = "done"
    /\ check_urls
    /\ returns = <<FALSE, TRUE>>
    /\ Len(calls) = 2

(***************************************************************************)
(* C5                                                                      *)
(***************************************************************************)
\* C5: two objects built from the same version, MATLAB version and package
\* manager have the same cmd, whatever check_urls was and whatever the
\* checks returned.
C5_Deterministic ==
    (/\ pc = "done"
     /\ prev.built
     /\ prev.version = version
     /\ prev.matlab_version = matlab_version.vstring
     /\ prev.pkg_manager = pkg_manager)
        => cmd = prev.cmd

\* the same configuration is built twice, once without checks and once with
\* a failed check
C5_Witness ==
    /\ pc = "done"
    /\ prev.built
    /\ prev.version = version
    /\ prev.matlab_version = matlab_version.vstring
    /\ prev.pkg_manager = pkg_manager
    /\ ~prev.check_urls
    /\ check_urls
    /\ log # <<>>
    /\ cmd # <<>>

(***************************************************************************)
(* C6                                                                      *)
(***************************************************************************)
\* C6: the runtime URL of a release after R2013a has the deployment_files
\* layout, that of R2013a and of the releases before it the MCR_Runtime
\* layout; the MATLAB version stands at every placeholder, and the URL of
\* any MATLAB version has one of the two layouts.
C6_UrlLayout ==
    mcr_url # <<>> =>
        /\ mcr_url \in {DeploymentFilesUrl(matlab_version.vstring),
                        McrRuntimeUrl(matlab_version.vstring)}
        /\ \A y \in MinYear..MaxYear, h \in {"a", "b"} :
               LET v == <<"R">> \o Digits(y) \o <<h>>
               IN  matlab_version.vstring = v =>
                       mcr_url = IF AfterThreshold(y, h)
                                 THEN DeploymentFilesUrl(v)
                                 ELSE McrRuntimeUrl(v)

\* the URL of the threshold release itself is built, in the legacy layout
C6_Witness ==
    /\ matlab_version.vstring = <<"R", "2", "0", "1", "3", "a">>
    /\ mcr_url = McrRuntimeUrl(matlab_version.vstring)
    /\ Count(mcr_url, "R") = 2

(***************************************************************************)
(* C7                                                                      *)
(***************************************************************************)
\* the library-install section of package manager pm
ExpectedLibsSection(pm) ==
    LET pkgs    == IF pm = "apt" THEN <<"libxext6 libxt6">>
                   ELSE <<"libXext.x86_64 libXt.x86_64">>
        install == format(manage_pkgs[pm].install, ("{pkgs}" :> pkgs))
    IN  <<"# Install required libraries", NL, "RUN", " ">> \o install
        \o <<line_suffix, NL, indentation, AND, " ">> \o manage_pkgs[pm].clean

\* C7: the library-install section of apt and of yum is the comment and one
\* RUN of the manager's install command with its packages, "&&", and its
\* clean command; a construction with any other package manager ends with
\* a configuration error.
C7_LibsSection ==
    /\ Len(chunks) >= 2 =>
           (pkg_manager \in PkgManagers
            /\ LibsSection = ExpectedLibsSection(pkg_manager))
    /\ (Ended /\ pkg_manager \notin PkgManagers) =>
           (pc = "raised" /\ error \in ConfigurationErrors)

(***************************************************************************)
(* C8                                                                      *)
(***************************************************************************)
\* C8: cmd is the comment header that names the version, the library
\* section, an empty line, the runtime section, an empty line, and the
\* application section that ends with the ENV block, each once and in this
\* order, with newlines in between.
C8_SectionOrder ==
    pc = "done" =>
        /\ cmd = <<"#----------------------", NL, "# Install MCR and SPM">>
                 \o version \o <<NL, "#----------------------">>
                 \o <<NL>> \o install_libs(pkg_manager).text
                 \o <<NL, NL>> \o install_mcr(mcr_url)
                 \o <<NL, NL>> \o install_spm(spm_url)
        /\ Count(cmd, "# Install required libraries") = 1
        /\ Count(cmd, "# Install MATLAB Compiler Runtime") = 1
        /\ Count(cmd, "# Install standalone SPM") = 1
        /\ Count(cmd, "ENV") = 1
        /\ LET e == indent("ENV", env_cmd)
           IN  SubSeq(cmd, Len(cmd) - Len(e) + 1, Len(cmd)) = e

\* an object is built and its cmd holds the three RUN instructions
C8_Witness ==
    /\ pc = "done"
    /\ Len(chunks) = 6
    /\ Count(cmd, "RUN") = 3

(***************************************************************************)
(* C9                                                                      *)
(***************************************************************************)
\* C9 as stated: the chain of the runtime-install section has five steps.
C9_FiveSteps ==
    Len(chunks) >= 4 => Steps(McrSection) = 5

\* C9, amended: the runtime-install section is the comment, WORKDIR /opt and
\* one RUN of a chain of four steps, each guarded by "&&": the download
\* from the runtime URL, the quiet extraction, the silent installer with the
\* license flag and the destination /opt/mcr, the removal of the temporary
\* files; only the URL varies.
C9_FourSteps ==
    Len(chunks) >= 4 =>
        /\ McrSection =
               <<"# Install MATLAB Compiler Runtime", NL,
                 "WORKDIR /opt", NL,
                 "RUN", " ", "curl -sSL -o mcr.zip ">> \o mcr_url
               \o <<line_suffix, NL,
                    indentation, AND, " unzip -q mcr.zip -d mcrtmp",
                    line_suffix, NL,
                    indentation, AND, " mcrtmp/install",
                    " -destinationFolder /opt/mcr", " -mode silent",
                    " -agreeToLicense yes", line_suffix, NL,
                    indentation, AND, " rm -rf mcrtmp mcr.zip /tmp/*">>
        /\ Steps(McrSection) = 4
        /\ Count(McrSection, "RUN") = 1

\* the runtime-install section is composed around the runtime URL
C9_Witness ==
    /\ Len(chunks) >= 4
    /\ mcr_url # <<>>
    /\ Occurs(mcr_url, McrSection)

(***************************************************************************)
(* C10                                                                     *)
(***************************************************************************)
\* the fragments that are wildcarded paths under /opt/mcr and /opt/spm*
WildcardPaths == {"/opt/mcr/v*", "/opt/spm*"}

\* the lines NAME=value of the ENV block of a section, without the
\* instruction, the indentation and the line continuations
EnvLines(section) ==
    LET k     == CHOOSE i \in 1..Len(section) : section[i] = "ENV"
        block == SubSeq(section, k + 2, Len(section))
        lines == splitlines(block)
    IN  [i \in 1..Len(lines) |->
            SelectSeq(lines[i],
                      LAMBDA t : t \notin {indentation, line_suffix})]

EnvName(line) == line[1]

EnvValue(line) == SubSeq(line, 3, Len(line))

EmbedsWildcard(value) == \E i \in 1..Len(value) : value[i] \in WildcardPaths

\* the application-install section but for its ENV block
SpmRunPart(url) ==
    <<"# Install standalone SPM", NL,
      "WORKDIR /opt", NL,
      "RUN", " ", "curl -sSL -o spm.zip ">> \o url
    \o <<line_suffix, NL,
         indentation, AND, " unzip -q spm.zip", line_suffix, NL,
         indentation, AND, " rm -rf spm.zip", NL>>

\* the application section is the comment, WORKDIR /opt, one RUN of a chain
\* of three steps that downloads from the application URL, and an ENV block
\* of exactly the four variables
C10_SectionShape ==
    /\ spm_url = <<"http://www.fil.ion.ucl.ac.uk/spm/download/restricted/",
                   "utopia/dev/spm">> \o version \o <<"_latest_Linux_">>
                 \o matlab_version.vstring \o <<".zip">>
    /\ SubSeq(SpmSection, 1, Len(SpmRunPart(spm_url))) = SpmRunPart(spm_url)
    /\ SpmSection[Len(SpmRunPart(spm_url)) + 1] = "ENV"
    /\ Steps(SpmRunPart(spm_url)) = 3
    /\ LET env == EnvLines(SpmSection)
       IN  /\ [i \in 1..Len(env) |-> EnvName(env[i])]
                  = <<"MATLABCMD", "SPMMCRCMD", "FORCE_SPMMCR",
                      "LD_LIBRARY_PATH">>
           /\ \A i \in 1..Len(env) : env[i][2] = "="

\* C10 as stated: the section has the stated shape and the value of each of
\* the four variables embeds a wildcarded path.
C10_AllWildcard ==
    Len(chunks) = 6 =>
        /\ C10_SectionShape
        /\ \A i \in 1..Len(EnvLines(SpmSection)) :
               EmbedsWildcard(EnvValue(EnvLines(SpmSection)[i]))

\* C10, amended: the section has the stated shape; the values of MATLABCMD,
\* SPMMCRCMD and LD_LIBRARY_PATH embed a wildcarded path under /opt/mcr or
\* /opt/spm*, and the value of FORCE_SPMMCR is the constant 1.
C10_ThreeWildcard ==
    Len(chunks) = 6 =>
        /\ C10_SectionShape
        /\ \A i \in 1..Len(EnvLines(SpmSection)) :
               LET line == EnvLines(SpmSection)[i]
               IN  IF EnvName(line) = "FORCE_SPMMCR"
                   THEN EnvValue(line) = <<"1">>
                   ELSE EmbedsWildcard(EnvValue(line))

\* the application-install section is composed around the application URL
C10_Witness ==
    /\ Len(chunks) = 6
    /\ spm_url # <<>>
    /\ Occurs(spm_url, SpmSection)
    /\ Len(EnvLines(SpmSection)) = 4

=============================================================================
